---- MODULE Spec2Model ----
(***************************************************************************)
(* Session lifecycle, transcript sequencing and feedback gate of the       *)
(* osteopathy training backend (src/app/main.py, src/app/services.py,      *)
(* src/app/gemini_client.py, src/app/models.py), for one student whose 16  *)
(* sessions have been seeded.  Each request handler is one atomic action;  *)
(* the external generators' results are inputs of the actions.             *)
(***************************************************************************)
EXTENDS Integers, Sequences, FiniteSets, TLC

VARIABLES
    now,        \* the clock read by datetime.now(timezone.utc), seconds since 1970-01-01
    sessions,   \* table sessions: session_number -> row
    messages,   \* table messages: session_number -> rows in insertion order
    feedback,   \* table feedback: session_number -> rows in insertion order
    badges,     \* table badges: badge_code -> number of rows held by the student
    student_program,  \* table student_program: the student's rows (none or one)
    questionnaire,    \* table questionnaire: session_number -> rows (none or one)
    inflight,   \* requests whose handler runs store call by store call: id -> position and locals
    last        \* the most recent request and the response it received

vars == <<now, sessions, messages, feedback, badges, student_program, questionnaire,
          inflight, last>>

----------------------------------------------------------------------------
(* Bounds of the exploration *)

MaxMsgs == 4        \* a chat request is issued only while its 3 rows fit in MaxMsgs
MaxHops == 1        \* the clock moves at most MaxHops times
MaxEnded == 3       \* in SpecMilestones at most MaxEnded sessions are completed
MaxSeed == 7        \* the random draws of a seeding are those of the seeds 0..MaxSeed
MaxTranscript == 402 \* in SpecTranscript a chat request is issued while the session holds fewer rows

(* Program constants *)

NumSessions == 16
WeeklyLimit == 2
SkillThreshold == 3

SecondsPerDay == 24 * 60 * 60
SecondsPerWeek == 7 * SecondsPerDay
\* Sunday 1970-01-04 23:59:59 UTC
InitialNow == 4 * SecondsPerDay - 1

SessionNumbers == 1..NumSessions
\* the sessions that requests address: the first two and the last one
TargetSessions == {1, 2, NumSessions}
\* the sessions whose patient_opening_starts flag is either value
OpeningSessions == {1, 2}
\* a NULL timestamp
NoTime == 0 - 1

----------------------------------------------------------------------------
(* services.py: time *)

\* datetime.weekday() of a UTC instant: Monday is 0; 1970-01-01 was a Thursday
weekday(t) == ((t \div SecondsPerDay) + 3) % 7

\* a variant that subtracts the days only, not the time of day
iso_week_start_days_only(t) == t - weekday(t) * SecondsPerDay

iso_week_start(t) ==
    LET hour == (t % SecondsPerDay) \div 3600
        minute == (t % 3600) \div 60
        second == t % 60
    IN  t - (weekday(t) * SecondsPerDay + hour * 3600 + minute * 60 + second)

\* a variant that counts every completed session, whatever its week
sessions_completed_ever(ss, t) ==
    Cardinality({n \in SessionNumbers : ss[n].status = "completed"})

sessions_completed_this_week(ss, t) ==
    LET start == iso_week_start(t)
        end == start + SecondsPerWeek
    IN  Cardinality({n \in SessionNumbers :
            /\ ss[n].status = "completed"
            /\ ss[n].ended_at # NoTime
            /\ ss[n].ended_at >= start
            /\ ss[n].ended_at < end})

----------------------------------------------------------------------------
(* gemini_client.py: the external generator.  What the remote service does *)
(* is an input: "disabled" is a missing API key, "quota", "not_found" and  *)
(* "other" are exceptions raised by the client library, "empty" is a reply *)
(* whose text is blank, "text" is a reply with text.                       *)

TextOutcomes == {"text", "empty", "disabled", "quota", "not_found", "other"}

PatientText == "patient says"

\* GeminiClient.generate_text: the text, or the HTTPException it raises.  The
\* HTTPException(503) for an empty reply is raised inside the try block and
\* caught by `except Exception`, where it is neither a quota nor a not-found
\* error, so it leaves as a 500.
generate_text(outcome) ==
    CASE outcome = "disabled" -> [ok |-> FALSE, code |-> 503, text |-> ""]
      [] outcome = "text" -> [ok |-> TRUE, code |-> 200, text |-> PatientText]
      [] outcome = "quota" -> [ok |-> FALSE, code |-> 503, text |-> ""]
      [] outcome = "not_found" -> [ok |-> FALSE, code |-> 503, text |-> ""]
      [] OTHER -> [ok |-> FALSE, code |-> 500, text |-> ""]

----------------------------------------------------------------------------
(* services.py: transcript *)

RECURSIVE MaxTurnBetween(_, _, _)
\* the largest turn_index among rows[lo..hi], halving the range
MaxTurnBetween(rows, lo, hi) ==
    IF lo = hi THEN rows[lo].turn_index
    ELSE LET mid == (lo + hi) \div 2
             left == MaxTurnBetween(rows, lo, mid)
             right == MaxTurnBetween(rows, mid + 1, hi)
         IN  IF left > right THEN left ELSE right

\* the largest turn_index among rows (0 for no rows)
MaxTurn(rows) ==
    IF rows = <<>> THEN 0 ELSE MaxTurnBetween(rows, 1, Len(rows))

\* a variant that orders ascending and so reads the oldest row
next_turn_index_oldest(rows) ==
    IF rows = <<>> THEN 1 ELSE Head(rows).turn_index + 1

\* a variant that leaves a gap after the newest row
next_turn_index_skip(rows) ==
    IF rows = <<>> THEN 1 ELSE MaxTurn(rows) + 2

\* order by turn_index desc, limit 1: 1 for no row, else that row's index + 1
next_turn_index(rows) ==
    IF rows = <<>> THEN 1 ELSE MaxTurn(rows) + 1

\* a variant that reads the oldest rows
get_history_oldest(rows, limit) ==
    IF Len(rows) <= limit THEN rows ELSE SubSeq(rows, 1, limit)

\* get_history: order by turn_index desc, limit, reversed.  The rows of a
\* session are held in insertion order, which is ascending turn_index, so
\* these are its last `limit` rows.
get_history(rows, limit) ==
    IF Len(rows) <= limit THEN rows
    ELSE SubSeq(rows, Len(rows) - limit + 1, Len(rows))

InsertMessage(rows, role, content) ==
    Append(rows, [turn_index |-> next_turn_index(rows), role |-> role, content |-> content])

----------------------------------------------------------------------------
(* services.py: badges *)

MilestoneSessions == {1, 4, 8, 12, 16}

MILESTONE_BADGES(n) ==
    CASE n = 1 -> "MILESTONE_SESSION_1"
      [] n = 4 -> "MILESTONE_SESSION_4"
      [] n = 8 -> "MILESTONE_SESSION_8"
      [] n = 12 -> "MILESTONE_SESSION_12"
      [] n = 16 -> "MILESTONE_SESSION_16"

SkillKeys == {"active_listening", "reformulation", "emotional_validation",
              "open_questions", "structure_clarity"}

SKILL_BADGES(k) ==
    CASE k = "active_listening" -> "SKILL_ACTIVE_LISTENING"
      [] k = "reformulation" -> "SKILL_REFORMULATION"
      [] k = "emotional_validation" -> "SKILL_EMOTIONAL_VALIDATION"
      [] k = "open_questions" -> "SKILL_OPEN_QUESTIONS"
      [] k = "structure_clarity" -> "SKILL_STRUCTURE_CLARITY"

BadgeCodes == {MILESTONE_BADGES(n) : n \in MilestoneSessions}
              \cup {SKILL_BADGES(k) : k \in SkillKeys}

\* a variant without the lookup of an existing row
award_badge_unchecked(bs, code) == [bs EXCEPT ![code] = @ + 1]

\* insert a row unless the student already holds one with this code
award_badge(bs, code) ==
    IF bs[code] > 0 THEN bs ELSE [bs EXCEPT ![code] = @ + 1]

\* a variant that looks up the number of the following session
award_milestone_badge_next(bs, n) ==
    IF n + 1 \notin MilestoneSessions THEN bs ELSE award_badge(bs, MILESTONE_BADGES(n + 1))

award_milestone_badge(bs, n) ==
    IF n \notin MilestoneSessions THEN bs ELSE award_badge(bs, MILESTONE_BADGES(n))

\* a variant that unlocks nothing
lock_and_unlock_next_never(ss, n) == ss

\* a variant whose update lacks the status filter
lock_and_unlock_next_unfiltered(ss, n) ==
    IF n >= NumSessions THEN ss
    ELSE [ss EXCEPT ![n + 1].status = "available"]

\* lock_and_unlock_next: nothing for the last session, else the row numbered
\* n + 1 becomes available if its status is locked
lock_and_unlock_next(ss, n) ==
    IF n >= NumSessions THEN ss
    ELSE IF ss[n + 1].status = "locked"
         THEN [ss EXCEPT ![n + 1].status = "available"]
         ELSE ss

----------------------------------------------------------------------------
(* models.py: the feedback schema.  A JSON object is a function from its   *)
(* keys; a JSON number that is an integer is JInt(n), a JSON string is     *)
(* JStr(s); lists are sequences and JSON booleans are BOOLEAN.             *)

JInt(n) == [int |-> n]
JStr(s) == [str |-> s]
IsJInt(v) == DOMAIN v = {"int"}

Languages == {"fr", "en"}
StudentFacingKeys == {"strengths", "areas_to_improve", "reflective_question"}
FeedbackKeys == {"language", "student_facing", "internal_scores", "skill_indicators", "kpis"}
ScoreKeys == {"empathy", "structure", "alliance"}

\* a variant without the length constraints of the fields
StudentFacingFeedback_unconstrained(sf) ==
    StudentFacingKeys \subseteq DOMAIN sf

\* StudentFacingFeedback: strengths and areas_to_improve of 3 to 5 items,
\* reflective_question of 10 to 400 characters
StudentFacingFeedback_valid(sf) ==
    /\ StudentFacingKeys \subseteq DOMAIN sf
    /\ Len(sf.strengths) >= 3 /\ Len(sf.strengths) <= 5
    /\ Len(sf.areas_to_improve) >= 3 /\ Len(sf.areas_to_improve) <= 5
    /\ Len(sf.reflective_question) >= 10 /\ Len(sf.reflective_question) <= 400

\* SkillIndicators: the five boolean fields are required, other keys are ignored
SkillIndicators_valid(si) ==
    /\ SkillKeys \subseteq DOMAIN si
    /\ \A k \in SkillKeys : si[k] \in BOOLEAN

\* internal_scores: Dict[str, int], any keys, every value an integer
InternalScores_valid(sc) ==
    \A k \in DOMAIN sc : IsJInt(sc[k])

\* FeedbackAdminResponse.model_validate_json
FeedbackAdminResponse_valid(obj) ==
    /\ FeedbackKeys \subseteq DOMAIN obj
    /\ obj.language \in Languages
    /\ StudentFacingFeedback_valid(obj.student_facing)
    /\ InternalScores_valid(obj.internal_scores)
    /\ SkillIndicators_valid(obj.skill_indicators)

\* the validated model: declared fields only, integers unwrapped
FeedbackAdminResponse_parse(obj) ==
    [language |-> obj.language,
     student_facing |-> [k \in StudentFacingKeys |-> obj.student_facing[k]],
     internal_scores |-> [k \in DOMAIN obj.internal_scores |-> obj.internal_scores[k].int],
     skill_indicators |-> [k \in SkillKeys |-> obj.skill_indicators[k]],
     kpis |-> obj.kpis]

\* a variant that returns the stored row as it is
FeedbackStudentResponse_unfiltered(row) == row

\* FeedbackStudentResponse: language, student_facing and internal_scores only
FeedbackStudentResponse(row) ==
    [language |-> row.language,
     student_facing |-> row.student_facing,
     internal_scores |-> row.internal_scores]

\* GeminiClient.generate_structured: the validated model, or the
\* HTTPException it raises
generate_structured(outcome) ==
    CASE outcome.kind = "disabled" ->
            [ok |-> FALSE, code |-> 503, detail |-> "AI service unavailable (missing API key)"]
      [] outcome.kind = "empty" ->
            [ok |-> FALSE, code |-> 503, detail |-> "AI returned empty structured output"]
      [] outcome.kind = "invalid_json" ->
            [ok |-> FALSE, code |-> 503, detail |-> "AI returned invalid JSON"]
      [] outcome.kind = "json" ->
            IF FeedbackAdminResponse_valid(outcome.obj)
            THEN [ok |-> TRUE, code |-> 200, parsed |-> FeedbackAdminResponse_parse(outcome.obj)]
            ELSE [ok |-> FALSE, code |-> 503, detail |-> "AI JSON did not match schema"]
      [] outcome.kind = "quota" ->
            [ok |-> FALSE, code |-> 503, detail |-> "AI feedback unavailable (quota/rate limit)"]
      [] outcome.kind = "not_found" ->
            [ok |-> FALSE, code |-> 503, detail |-> "AI model not available (check model id/version)"]
      [] OTHER ->
            [ok |-> FALSE, code |-> 500, detail |-> "AI structured generation failed"]

\* award_skill_badges_if_ready: per skill, the number of the student's
\* feedback rows whose indicator is true; a badge for each count >= threshold
SkillCount(fb, k) ==
    Cardinality({p \in UNION {{<<n, i>> : i \in DOMAIN fb[n]} : n \in SessionNumbers} :
                    fb[p[1]][p[2]].skill_indicators[k] = TRUE})

RECURSIVE AwardSkills(_, _, _, _)
AwardSkills(bs, fb, keys, threshold) ==
    IF keys = {} THEN bs
    ELSE LET k == CHOOSE x \in keys : TRUE
             next == IF SkillCount(fb, k) >= threshold
                     THEN award_badge(bs, SKILL_BADGES(k))
                     ELSE bs
         IN  AwardSkills(next, fb, keys \ {k}, threshold)

\* a variant that awards only above the threshold
award_skill_badges_if_above(bs, fb, threshold) ==
    AwardSkills(bs, fb, SkillKeys, threshold + 1)

award_skill_badges_if_ready(bs, fb, threshold) ==
    AwardSkills(bs, fb, SkillKeys, threshold)

----------------------------------------------------------------------------
(* services.py: seeding.  The results of random.shuffle and random.choice  *)
(* are inputs: `shuffled` is the head of the shuffled list range(2, 17),   *)
(* `rnd` holds, per session number, the position each random.choice picks. *)

Difficulties == <<"L1", "L2", "L3">>
Ages == <<12, 15, 18, 24, 32, 41, 52, 67, 74>>
Genders == <<"female", "male">>

\* sorted() of a two-element list
sorted(a, b) == IF a <= b THEN <<a, b>> ELSE <<b, a>>

\* the elements of a list, as set()
set(list) == {list[i] : i \in DOMAIN list}

\* a variant that inserts a row whether or not the student has one
ensure_user_program_unconditional(prog, shuffled) ==
    <<[reorientation_immediate_sessions |-> sorted(shuffled[1], shuffled[2]),
       reorientation_delayed_sessions |-> sorted(shuffled[3], shuffled[4])]>>

\* a variant whose second slice starts one position early
ensure_user_program_overlap(prog, shuffled) ==
    IF prog # <<>> THEN prog
    ELSE <<[reorientation_immediate_sessions |-> sorted(shuffled[1], shuffled[2]),
            reorientation_delayed_sessions |-> sorted(shuffled[2], shuffled[3])]>>

\* ensure_user_program: the student's rows after the call
ensure_user_program(prog, shuffled) ==
    IF prog # <<>> THEN prog
    ELSE <<[reorientation_immediate_sessions |-> sorted(shuffled[1], shuffled[2]),
            reorientation_delayed_sessions |-> sorted(shuffled[3], shuffled[4])]>>

\* a variant that keeps the previous difficulty among the choices
choices_unfiltered(prev) == Difficulties

\* lines 195-197: the three difficulties without the previous one
choices(prev) == SelectSeq(Difficulties, LAMBDA d : d # prev)

RECURSIVE diffs(_, _)
\* lines 189-200: the difficulties drawn for sessions 1..sn
diffs(rnd, sn) ==
    IF sn = 1 THEN <<"L1">>
    ELSE LET before == diffs(rnd, sn - 1)
             prev == before[sn - 1]
         IN  Append(before, choices(prev)[rnd.diff[sn] + 1])

\* lines 207-211
reorientation(sn, immediate, delayed) ==
    IF sn \in immediate THEN "immediate"
    ELSE IF sn \in delayed THEN "delayed"
    ELSE "none"

\* lines 202-230: one row per session number that has none
rows_to_insert(existing_nums, row, rnd) ==
    LET immediate == set(row.reorientation_immediate_sessions)
        delayed == set(row.reorientation_delayed_sessions)
        drawn == diffs(rnd, NumSessions)
    IN  [sn \in SessionNumbers \ existing_nums |->
            [status |-> IF sn = 1 THEN "available" ELSE "locked",
             difficulty |-> drawn[sn],
             reorientation |-> reorientation(sn, immediate, delayed),
             patient_age |-> Ages[rnd.age[sn]],
             patient_gender |-> Genders[rnd.gender[sn]],
             patient_opening_starts |-> rnd.opening[sn],
             started_at |-> NoTime,
             ended_at |-> NoTime]]

\* the table after a bulk insert of rows with new session numbers
InsertSessions(ss, rows) ==
    [sn \in DOMAIN ss \cup DOMAIN rows |-> IF sn \in DOMAIN ss THEN ss[sn] ELSE rows[sn]]

\* ensure_16_sessions_seeded: both tables after the call
ensure_16_sessions_seeded(prog, ss, shuffled, rnd) ==
    LET prog1 == ensure_user_program(prog, shuffled)
        existing_nums == DOMAIN ss
    IN  IF Cardinality(existing_nums) = NumSessions
        THEN [student_program |-> prog1, sessions |-> ss]
        ELSE [student_program |-> prog1,
              sessions |-> InsertSessions(ss, rows_to_insert(existing_nums, prog1[1], rnd))]

----------------------------------------------------------------------------
(* Inputs of the requests *)

StudentMessages == {"student asks"}

Strengths == <<"listens", "open posture", "clear plan">>
Areas == <<"pace", "summaries", "closing">>
Question == "What would you ask next time?"
GoodScores == [empathy |-> JInt(3), structure |-> JInt(4), alliance |-> JInt(5)]
GoodFacing == [strengths |-> Strengths, areas_to_improve |-> Areas,
               reflective_question |-> Question]
Kpis == [interruptions_estimate |-> 2]

FeedbackObject(lang, facing, scores, skills) ==
    [language |-> lang, student_facing |-> facing, internal_scores |-> scores,
     skill_indicators |-> skills, kpis |-> Kpis]

\* objects the evaluator model may return as JSON
ObjAllSkills ==
    FeedbackObject("fr", GoodFacing, GoodScores, [k \in SkillKeys |-> TRUE])
ObjOneSkill ==
    FeedbackObject("en", GoodFacing, GoodScores,
                   [k \in SkillKeys |-> k = "active_listening"])
ObjBadScores ==
    FeedbackObject("fr", GoodFacing, [empathy |-> JInt(9), rapport |-> JInt(0)],
                   [k \in SkillKeys |-> FALSE])
ObjScoreNotInt ==
    FeedbackObject("fr", GoodFacing,
                   [empathy |-> JStr("high"), structure |-> JInt(4), alliance |-> JInt(5)],
                   [k \in SkillKeys |-> TRUE])
ObjFewStrengths ==
    FeedbackObject("fr", [GoodFacing EXCEPT !.strengths = <<"listens", "clear plan">>],
                   GoodScores, [k \in SkillKeys |-> TRUE])
ObjShortQuestion ==
    FeedbackObject("fr", [GoodFacing EXCEPT !.reflective_question = "Why?"],
                   GoodScores, [k \in SkillKeys |-> TRUE])
ObjMissingSkill ==
    FeedbackObject("fr", GoodFacing, GoodScores,
                   [k \in SkillKeys \ {"structure_clarity"} |-> TRUE])
ObjBadLanguage ==
    FeedbackObject("de", GoodFacing, GoodScores, [k \in SkillKeys |-> TRUE])
ObjNoKpis ==
    [language |-> "fr", student_facing |-> GoodFacing, internal_scores |-> GoodScores,
     skill_indicators |-> [k \in SkillKeys |-> TRUE]]

GenObjects == {ObjAllSkills, ObjOneSkill, ObjBadScores, ObjScoreNotInt, ObjFewStrengths,
               ObjShortQuestion, ObjMissingSkill, ObjBadLanguage, ObjNoKpis}

StructOutcomes ==
    {[kind |-> k, obj |-> ObjNoKpis] :
        k \in {"disabled", "quota", "not_found", "other", "empty", "invalid_json"}}
    \cup {[kind |-> "json", obj |-> o] : o \in GenObjects}

----------------------------------------------------------------------------
(* State *)

NoBody == [none |-> TRUE]

\* the requests that may run store call by store call
Requests == {1, 2}
Idle == [pc |-> "idle"]

Response(op, n, status, code, detail, calls, body) ==
    [op |-> op, session |-> n, ses_status |-> status, code |-> code,
     detail |-> detail, gen_calls |-> calls, body |-> body]

\* the draws of the seeding that precedes the first request: difficulties
\* alternate, patient_opening_starts is the given choice
InitialDraws(opening) ==
    [diff |-> [sn \in SessionNumbers |-> 0],
     age |-> [sn \in SessionNumbers |-> 1],
     gender |-> [sn \in SessionNumbers |-> 1],
     opening |-> [sn \in SessionNumbers |->
                    IF sn \in OpeningSessions THEN opening[sn] ELSE FALSE]]

InitialShuffle == <<2, 3, NumSessions - 1, NumSessions>>

\* the tables no request of the student has written yet
EmptyTables ==
    /\ now = InitialNow
    /\ messages = [n \in SessionNumbers |-> <<>>]
    /\ feedback = [n \in SessionNumbers |-> <<>>]
    /\ questionnaire = [n \in SessionNumbers |-> <<>>]
    /\ badges = [c \in BadgeCodes |-> 0]
    /\ inflight = [r \in Requests |-> Idle]
    /\ last = Response("none", 0, "none", 0, "", 0, NoBody)

\* the store after ensure_16_sessions_seeded for a new student: session 1 is
\* available, the others locked; patient_opening_starts is a random choice
Init ==
    /\ EmptyTables
    /\ \E opening \in [OpeningSessions -> BOOLEAN] :
         LET seeded == ensure_16_sessions_seeded(<<>>, <<>>, InitialShuffle,
                                                 InitialDraws(opening))
         IN  /\ sessions = seeded.sessions
             /\ student_program = seeded.student_program

----------------------------------------------------------------------------
(* services.py: ensure_16_sessions_seeded, as called by the dashboard and  *)
(* current-session handlers                                                *)

Seeds == 0..MaxSeed

\* the draws of one seeding: the positions picked by random.choice for the
\* difficulty (0 or 1 among the two remaining), age, gender and opening flag
RandomDraws(seed) ==
    [diff |-> [sn \in SessionNumbers |-> (seed \div (2 ^ (sn % 3))) % 2],
     age |-> [sn \in SessionNumbers |-> ((seed + sn) % Len(Ages)) + 1],
     gender |-> [sn \in SessionNumbers |-> ((seed + sn) % Len(Genders)) + 1],
     opening |-> [sn \in SessionNumbers |-> (seed + sn) % 3 = 0]]

\* the heads of the shuffled list: four distinct numbers among these
ShuffleHeads == {2, 3, NumSessions - 1, NumSessions}
Shuffles ==
    {sh \in [1..4 -> ShuffleHeads] : \A i, j \in 1..4 : sh[i] = sh[j] => i = j}

EnsureSeeded(shuffled, rnd) ==
    LET seeded == ensure_16_sessions_seeded(student_program, sessions, shuffled, rnd)
        inserted == DOMAIN seeded.sessions \ DOMAIN sessions
    IN
    /\ sessions' = seeded.sessions
    /\ student_program' = seeded.student_program
    /\ last' = Response("ensure_seeded", 0, "none", 200, "", 0,
                        [rows_inserted |-> Cardinality(inserted)])
    /\ UNCHANGED <<inflight, now, messages, feedback, badges, questionnaire>>

----------------------------------------------------------------------------
(* services.py: ensure_16_sessions_seeded, one store call per step, for    *)
(* requests that run at the same time.  The store refuses an insert into   *)
(* sessions that repeats a (user_id, session_number).                      *)

\* lines 143-156: the row ensure_user_program inserts
program_row(shuffled) ==
    [reorientation_immediate_sessions |-> sorted(shuffled[1], shuffled[2]),
     reorientation_delayed_sessions |-> sorted(shuffled[3], shuffled[4])]

\* the uniqueness constraint on (user_id, session_number)
sessions_unique_violation(ss, rows) == DOMAIN rows \cap DOMAIN ss # {}

\* lines 134-140: the select of the program row
SeedReadProgram(r) ==
    /\ inflight[r].pc = "idle"
    /\ inflight' = [inflight EXCEPT ![r] =
            [pc |-> IF student_program # <<>> THEN "program_done" ELSE "program_missing"]]
    /\ UNCHANGED <<now, sessions, messages, feedback, badges, student_program,
                   questionnaire, last>>

\* lines 143-161: the insert of the program row
SeedInsertProgram(r, shuffled) ==
    /\ inflight[r].pc = "program_missing"
    /\ student_program' = Append(student_program, program_row(shuffled))
    /\ inflight' = [inflight EXCEPT ![r] = [pc |-> "program_done"]]
    /\ UNCHANGED <<now, sessions, messages, feedback, badges, questionnaire, last>>

\* lines 167-175: the select of the existing session numbers
SeedReadSessions(r) ==
    LET existing_nums == DOMAIN sessions
    IN
    /\ inflight[r].pc = "program_done"
    /\ UNCHANGED <<now, sessions, messages, feedback, badges, student_program, questionnaire>>
    /\ IF Cardinality(existing_nums) = NumSessions THEN
            /\ inflight' = [inflight EXCEPT ![r] =
                    [pc |-> "done", existing_nums |-> existing_nums, code |-> 200]]
            /\ last' = Response("ensure_seeded", 0, "none", 200, "", 0, [rows_inserted |-> 0])
       ELSE
            /\ inflight' = [inflight EXCEPT ![r] =
                    [pc |-> "sessions_read", existing_nums |-> existing_nums]]
            /\ UNCHANGED last

\* lines 177-236: the select of the program row (limit 1, no order: any of
\* the student's rows) and the bulk insert of the missing session rows
SeedInsertSessions(r, rnd) ==
    /\ inflight[r].pc = "sessions_read"
    /\ UNCHANGED <<now, messages, feedback, badges, student_program, questionnaire>>
    /\ \E i \in DOMAIN student_program :
        LET rows == rows_to_insert(inflight[r].existing_nums, student_program[i], rnd)
        IN  IF sessions_unique_violation(sessions, rows) THEN
                /\ UNCHANGED sessions
                /\ inflight' = [inflight EXCEPT ![r] =
                        [pc |-> "done", existing_nums |-> inflight[r].existing_nums,
                         code |-> 400]]
                /\ last' = Response("ensure_seeded", 0, "none", 400,
                                    "sessions seed insert failed", 0, [rows_inserted |-> 0])
            ELSE
                /\ sessions' = InsertSessions(sessions, rows)
                /\ inflight' = [inflight EXCEPT ![r] =
                        [pc |-> "done", existing_nums |-> inflight[r].existing_nums,
                         code |-> 200]]
                /\ last' = Response("ensure_seeded", 0, "none", 200, "", 0,
                                    [rows_inserted |-> Cardinality(DOMAIN rows)])

\* a brand-new student: no program row, no session row
InitNewStudent ==
    /\ EmptyTables
    /\ sessions = <<>>
    /\ student_program = <<>>

\* the session numbers whose rows a store holds before a seeding
KeptSets == {{}, {1}, {2}, {1, 3}, 1..8, SessionNumbers \ {2},
             SessionNumbers \ {NumSessions}}

\* a store that holds some of the rows of an earlier seeding, or none
InitSeed ==
    /\ EmptyTables
    /\ \E kept \in KeptSets, seed \in Seeds, shuffled \in Shuffles :
         LET earlier == ensure_16_sessions_seeded(<<>>, <<>>, shuffled, RandomDraws(seed))
         IN  /\ sessions = [sn \in kept |-> earlier.sessions[sn]]
             /\ \/ student_program = earlier.student_program
                \/ kept = {} /\ student_program = <<>>

----------------------------------------------------------------------------
(* main.py: GET /student/sessions/current *)

\* _select_first on sessions with a status filter and an order on
\* session_number: the first matching row's number, as a list of at most one
select_first_session(ss, statuses, desc) ==
    LET matching == {n \in DOMAIN ss : ss[n].status \in statuses}
    IN  IF matching = {} THEN <<>>
        ELSE IF desc THEN <<CHOOSE n \in matching : \A m \in matching : m <= n>>
        ELSE <<CHOOSE n \in matching : \A m \in matching : n <= m>>

\* a variant that orders descending
get_available_session_desc(ss) ==
    select_first_session(ss, {"in_progress", "available"}, TRUE)

\* lines 242-249, on the table that the seeding of line 240 leaves
get_available_session(ss) ==
    select_first_session(ss, {"in_progress", "available"}, FALSE)

\* services.gender_label (the French label "Garcon" is written without cedilla)
gender_label(age, gender, lang) ==
    IF lang = "en" THEN
        IF age < 17 THEN (IF gender = "female" THEN "Girl" ELSE "Boy")
        ELSE (IF gender = "female" THEN "Woman" ELSE "Man")
    ELSE
        IF age < 17 THEN (IF gender = "female" THEN "Fille" ELSE "Garcon")
        ELSE (IF gender = "female" THEN "Femme" ELSE "Homme")

CurrentSession(shuffled, rnd, lang) ==
    LET seeded == ensure_16_sessions_seeded(student_program, sessions, shuffled, rnd)
        found == get_available_session(seeded.sessions)
    IN
    /\ sessions' = seeded.sessions
    /\ student_program' = seeded.student_program
    /\ UNCHANGED <<inflight, now, messages, feedback, badges, questionnaire>>
    /\ IF found = <<>> THEN
            last' = Response("current_session", 0, "none", 200, "", 0, [done |-> TRUE])
       ELSE
            LET n == found[1]
                ses == seeded.sessions[n]
            IN  last' = Response("current_session", n, ses.status, 200, "", 0,
                            [session_number |-> n,
                             status |-> ses.status,
                             patient_age |-> ses.patient_age,
                             patient_gender_label |->
                                gender_label(ses.patient_age, ses.patient_gender, lang)])

----------------------------------------------------------------------------
(* main.py: POST /student/sessions/{session_id}/chat *)

\* the update of lines 168-171: in_progress, started_at kept if already set
StartSession(ss, n, t) ==
    [ss EXCEPT ![n].status = "in_progress",
               ![n].started_at = IF ss[n].started_at # NoTime THEN ss[n].started_at ELSE t]

\* a variant that reads only the session's flag
NeedsOpening_flag_only(rows, ses) == ses.patient_opening_starts

\* a variant that never synthesizes an opening
NeedsOpening_never(rows, ses) == FALSE

\* lines 175-183: the session has no message row and its flag is set
NeedsOpening(rows, ses) == rows = <<>> /\ ses.patient_opening_starts

\* a variant that refuses only a completed session
ChatRefusal_completed_only(ses) ==
    IF ses.status = "completed"
    THEN [refused |-> TRUE, code |-> 400, detail |-> "Session already completed"]
    ELSE [refused |-> FALSE, code |-> 200, detail |-> ""]

\* lines 159-162: the HTTPException raised for a completed or locked session
ChatRefusal(ses) ==
    IF ses.status = "completed"
    THEN [refused |-> TRUE, code |-> 400, detail |-> "Session already completed"]
    ELSE IF ses.status = "locked"
    THEN [refused |-> TRUE, code |-> 403, detail |-> "Session locked"]
    ELSE [refused |-> FALSE, code |-> 200, detail |-> ""]

chat_send(n, msg, openOutcome, replyOutcome) ==
    LET ses == sessions[n]
        reply(code, detail, calls, body) ==
            Response("chat_send", n, ses.status, code, detail, calls, body)
    IN
    /\ UNCHANGED <<inflight, now, feedback, badges, student_program, questionnaire>>
    /\ IF ChatRefusal(ses).refused THEN
            /\ last' = reply(ChatRefusal(ses).code, ChatRefusal(ses).detail, 0, NoBody)
            /\ UNCHANGED <<sessions, messages>>
       ELSE IF ses.status = "available"
               /\ sessions_completed_this_week(sessions, now) >= WeeklyLimit THEN
            /\ last' = reply(403, "Limite: 2 sessions par semaine", 0, NoBody)
            /\ UNCHANGED <<sessions, messages>>
       ELSE
            LET started == IF ses.status = "available"
                           THEN StartSession(sessions, n, now)
                           ELSE sessions
                needOpening == NeedsOpening(messages[n], ses)
                opening == generate_text(openOutcome)
                reply2 == generate_text(replyOutcome)
                afterOpening == IF needOpening
                                THEN InsertMessage(messages[n], "patient", opening.text)
                                ELSE messages[n]
                afterStudent == InsertMessage(afterOpening, "student", msg)
                afterReply == InsertMessage(afterStudent, "patient", reply2.text)
                calls == IF needOpening THEN 2 ELSE 1
            IN
            /\ sessions' = started
            /\ IF needOpening /\ ~opening.ok THEN
                    /\ messages' = messages
                    /\ last' = reply(opening.code, "AI", 1, NoBody)
               ELSE IF ~reply2.ok THEN
                    /\ messages' = [messages EXCEPT ![n] = afterStudent]
                    /\ last' = reply(reply2.code, "AI", calls, NoBody)
               ELSE
                    /\ messages' = [messages EXCEPT ![n] = afterReply]
                    /\ last' = reply(200, "", calls,
                                     [patient_message |-> reply2.text,
                                      session_number |-> n])

\* a chat request, issued while its rows fit in MaxMsgs
ChatSend(n, msg, openOutcome, replyOutcome) ==
    /\ Len(messages[n]) + 3 <= MaxMsgs
    /\ chat_send(n, msg, openOutcome, replyOutcome)

----------------------------------------------------------------------------
(* main.py: chat_send, one store call per step, for requests that run at   *)
(* the same time.  The store refuses an insert into messages that repeats  *)
(* a (session_id, turn_index).                                             *)

\* the uniqueness constraint on (session_id, turn_index)
messages_unique_violation(rows, t) ==
    \E i \in DOMAIN rows : rows[i].turn_index = t

\* a request that has answered
Done(n, code) == [pc |-> "done", n |-> n, code |-> code]

\* lines 149-166: the select of the session row, the refusals and the
\* weekly count
ChatRead(r, n) ==
    LET ses == sessions[n]
        refusal == ChatRefusal(ses)
        limited == ses.status = "available"
                   /\ sessions_completed_this_week(sessions, now) >= WeeklyLimit
        code == IF refusal.refused THEN refusal.code ELSE 403
        detail == IF refusal.refused THEN refusal.detail
                  ELSE "Limite: 2 sessions par semaine"
    IN
    /\ inflight[r].pc = "idle"
    /\ UNCHANGED <<now, sessions, messages, feedback, badges, student_program, questionnaire>>
    /\ IF refusal.refused \/ limited THEN
            /\ inflight' = [inflight EXCEPT ![r] = Done(n, code)]
            /\ last' = Response("chat_send", n, ses.status, code, detail, 0, NoBody)
       ELSE
            /\ inflight' = [inflight EXCEPT ![r] =
                    [pc |-> IF ses.status = "available" THEN "start" ELSE "existing",
                     n |-> n, ses |-> ses]]
            /\ UNCHANGED last

\* lines 167-171: the update of the status, by id
ChatStart(r) ==
    /\ inflight[r].pc = "start"
    /\ sessions' = StartSession(sessions, inflight[r].n, now)
    /\ inflight' = [inflight EXCEPT ![r].pc = "existing"]
    /\ UNCHANGED <<now, messages, feedback, badges, student_program, questionnaire, last>>

\* lines 175-183: the select of one existing message
ChatReadExisting(r) ==
    /\ inflight[r].pc = "existing"
    /\ inflight' = [inflight EXCEPT ![r] =
            [pc |-> "turn", n |-> inflight[r].n, ses |-> inflight[r].ses,
             phase |-> IF NeedsOpening(messages[inflight[r].n], inflight[r].ses)
                       THEN "opening" ELSE "student",
             calls |-> 0]]
    /\ UNCHANGED <<now, sessions, messages, feedback, badges, student_program,
                   questionnaire, last>>

\* lines 205-207, 217, 218-250: the generator call of a patient turn and the
\* select of next_turn_index
ChatReadTurn(r, outcome) ==
    LET cur == inflight[r]
        generated == IF cur.phase = "student"
                     THEN [ok |-> TRUE, code |-> 200, text |-> ""]
                     ELSE generate_text(outcome)
        calls == IF cur.phase = "student" THEN cur.calls ELSE cur.calls + 1
    IN
    /\ cur.pc = "turn"
    /\ UNCHANGED <<now, sessions, messages, feedback, badges, student_program, questionnaire>>
    /\ IF ~generated.ok THEN
            /\ inflight' = [inflight EXCEPT ![r] = Done(cur.n, generated.code)]
            /\ last' = Response("chat_send", cur.n, cur.ses.status, generated.code,
                                "AI", calls, NoBody)
       ELSE
            /\ inflight' = [inflight EXCEPT ![r] =
                    [pc |-> "insert", n |-> cur.n, ses |-> cur.ses, phase |-> cur.phase,
                     calls |-> calls, t |-> next_turn_index(messages[cur.n]),
                     text |-> generated.text]]
            /\ UNCHANGED last

\* lines 208-214, 218-224, 253-259: the insert of a message; an error of the
\* store leaves the handler as an unhandled exception
ChatInsert(r, msg) ==
    LET cur == inflight[r]
        rows == messages[cur.n]
        role == IF cur.phase = "student" THEN "student" ELSE "patient"
        content == IF cur.phase = "student" THEN msg ELSE cur.text
        row == [turn_index |-> cur.t, role |-> role, content |-> content]
    IN
    /\ cur.pc = "insert"
    /\ UNCHANGED <<now, sessions, feedback, badges, student_program, questionnaire>>
    /\ IF messages_unique_violation(rows, cur.t) THEN
            /\ UNCHANGED messages
            /\ inflight' = [inflight EXCEPT ![r] = Done(cur.n, 500)]
            /\ last' = Response("chat_send", cur.n, cur.ses.status, 500,
                                "Internal Server Error", cur.calls, NoBody)
       ELSE
            /\ messages' = [messages EXCEPT ![cur.n] = Append(rows, row)]
            /\ IF cur.phase = "patient" THEN
                    /\ inflight' = [inflight EXCEPT ![r] = Done(cur.n, 200)]
                    /\ last' = Response("chat_send", cur.n, cur.ses.status, 200, "",
                                        cur.calls,
                                        [patient_message |-> cur.text,
                                         session_number |-> cur.n])
               ELSE
                    /\ inflight' = [inflight EXCEPT ![r] =
                            [pc |-> "turn", n |-> cur.n, ses |-> cur.ses,
                             phase |-> IF cur.phase = "opening" THEN "student"
                                       ELSE "patient",
                             calls |-> cur.calls]]
                    /\ UNCHANGED last

\* the points at which a run of chat_send may stop for good (the process
\* dies or the connection to the store is lost): after the status update,
\* after the insert of the opening, after the insert of the student message
CrashPoints == {"started", "opening", "student"}

\* a run of chat_send that stops at `point`: the writes made so far stay,
\* no response is sent (code 0)
ChatSendInterrupted(n, msg, openOutcome, point) ==
    LET ses == sessions[n]
        started == IF ses.status = "available"
                   THEN StartSession(sessions, n, now)
                   ELSE sessions
        needOpening == NeedsOpening(messages[n], ses)
        opening == generate_text(openOutcome)
        afterOpening == IF needOpening
                        THEN InsertMessage(messages[n], "patient", opening.text)
                        ELSE messages[n]
        afterStudent == InsertMessage(afterOpening, "student", msg)
    IN
    /\ Len(messages[n]) + 3 <= MaxMsgs
    /\ ses.status \notin {"completed", "locked"}
    /\ ~(ses.status = "available"
            /\ sessions_completed_this_week(sessions, now) >= WeeklyLimit)
    /\ UNCHANGED <<inflight, now, feedback, badges, student_program, questionnaire>>
    /\ sessions' = started
    /\ last' = Response("chat_send", n, ses.status, 0, point,
                        IF needOpening /\ point # "started" THEN 1 ELSE 0, NoBody)
    /\ CASE point = "started" -> messages' = messages
         [] point = "opening" ->
                /\ needOpening /\ opening.ok
                /\ messages' = [messages EXCEPT ![n] = afterOpening]
         [] point = "student" ->
                /\ needOpening => opening.ok
                /\ messages' = [messages EXCEPT ![n] = afterStudent]

----------------------------------------------------------------------------
(* main.py: POST /student/sessions/{session_id}/end *)

\* the update of lines 282-285
MarkCompleted(ss, n, t) ==
    [ss EXCEPT ![n].status = "completed", ![n].ended_at = t]

\* a variant without the early return for a completed session
EndSession_always(n) ==
    /\ UNCHANGED <<inflight, now, messages, feedback, student_program, questionnaire>>
    /\ last' = Response("end_session", n, sessions[n].status, 200, "", 0,
                        [session_number |-> n, status |-> "completed"])
    /\ sessions' = lock_and_unlock_next(MarkCompleted(sessions, n, now), n)
    /\ badges' = award_milestone_badge(badges, n)

EndSession(n) ==
    LET ses == sessions[n]
        body == [session_number |-> n, status |-> "completed"]
    IN
    /\ UNCHANGED <<inflight, now, messages, feedback, student_program, questionnaire>>
    /\ last' = Response("end_session", n, ses.status, 200, "", 0, body)
    /\ IF ses.status = "completed" THEN
            UNCHANGED <<sessions, badges>>
       ELSE
            /\ sessions' = lock_and_unlock_next(MarkCompleted(sessions, n, now), n)
            /\ badges' = award_milestone_badge(badges, n)

\* the points at which a run of end_session may stop for good: after the
\* update that marks the session completed, after the unlock of the next one
EndCrashPoints == {"completed", "unlocked"}

\* a run of end_session that stops at `point`: the writes made so far stay,
\* no response is sent (code 0)
EndSessionInterrupted(n, point) ==
    LET ses == sessions[n]
        marked == MarkCompleted(sessions, n, now)
    IN
    /\ ses.status # "completed"
    /\ UNCHANGED <<inflight, now, messages, feedback, badges, student_program, questionnaire>>
    /\ last' = Response("end_session", n, ses.status, 0, point, 0, NoBody)
    /\ sessions' = IF point = "completed" THEN marked ELSE lock_and_unlock_next(marked, n)

----------------------------------------------------------------------------
(* main.py: POST /student/sessions/{session_id}/generate-feedback *)

\* a variant that refuses only a locked session
FeedbackAllowed_unlocked(ses) == ses.status # "locked"

\* line 325: feedback is refused unless the session row read is completed
FeedbackAllowed(ses) == ses.status = "completed"

\* a variant whose query finds no row
ExistingFeedback_none(fb, n) == <<>>

\* lines 328-334: the feedback rows of the session
ExistingFeedback(fb, n) == fb[n]

\* main.py:338: the limit of the history read for the evaluation
FeedbackHistoryLimit == 400

\* the response of a request together with the transcript it sent to the
\* structured generator
WithTranscript(resp, hist) ==
    [op |-> resp.op, session |-> resp.session, ses_status |-> resp.ses_status,
     code |-> resp.code, detail |-> resp.detail, gen_calls |-> resp.gen_calls,
     body |-> resp.body, transcript |-> hist]

GenerateFeedback(n, outcome) ==
    LET ses == sessions[n]
        hist == get_history(messages[n], FeedbackHistoryLimit)
        reply(code, detail, calls, body) ==
            IF calls = 0
            THEN Response("generate_feedback", n, ses.status, code, detail, calls, body)
            ELSE WithTranscript(
                    Response("generate_feedback", n, ses.status, code, detail, calls, body),
                    hist)
    IN
    /\ UNCHANGED <<inflight, now, sessions, messages, student_program, questionnaire>>
    /\ IF ~FeedbackAllowed(ses) THEN
            /\ last' = reply(403, "Feedback only after completion", 0, NoBody)
            /\ UNCHANGED <<feedback, badges>>
       ELSE IF ExistingFeedback(feedback, n) # <<>> THEN
            /\ last' = reply(200, "", 0, FeedbackStudentResponse(ExistingFeedback(feedback, n)[1]))
            /\ UNCHANGED <<feedback, badges>>
       ELSE
            LET res == generate_structured(outcome)
            IN  IF ~res.ok THEN
                    /\ last' = reply(503, res.detail, 1, NoBody)
                    /\ UNCHANGED <<feedback, badges>>
                ELSE
                    LET stored == [feedback EXCEPT ![n] = Append(@, res.parsed)]
                    IN  /\ feedback' = stored
                        /\ badges' = award_skill_badges_if_ready(badges, stored, SkillThreshold)
                        /\ last' = reply(200, "", 1, FeedbackStudentResponse(res.parsed))

----------------------------------------------------------------------------
(* main.py: POST /student/sessions/{session_id}/questionnaire *)

\* answers that pass the validation of QuestionnaireSubmit
Answers == {[q1 |-> 1, q2 |-> 5, open_answer |-> ""],
            [q1 |-> 4, q2 |-> 2, open_answer |-> "useful"]}

\* a variant that accepts every submission
QuestionnaireAllowed_always(fb, n) == TRUE

\* lines 402-411: a feedback row with this session_id exists
QuestionnaireAllowed(fb, n) == fb[n] # <<>>

\* upsert on the table's key session_id: the row replaces the session's row
upsert(rows, row) == <<row>>

SubmitQuestionnaire(n, answers) ==
    LET reply(code, detail) ==
            Response("submit_questionnaire", n, sessions[n].status, code, detail, 0, NoBody)
    IN
    /\ UNCHANGED <<inflight, now, sessions, messages, feedback, badges, student_program>>
    /\ IF ~QuestionnaireAllowed(feedback, n) THEN
            /\ last' = reply(403, "Questionnaire after feedback")
            /\ UNCHANGED questionnaire
       ELSE
            /\ questionnaire' = [questionnaire EXCEPT ![n] = upsert(@, answers)]
            /\ last' = reply(200, "")

----------------------------------------------------------------------------
(* The clock: time passes to the last second of the current ISO week or to *)
(* the first second of the next one.                                       *)

LastSecond(t) == iso_week_start(t) + SecondsPerWeek - 1
NextInstant(t) == IF t < LastSecond(t) THEN LastSecond(t) ELSE t + 1

RECURSIVE HopsFrom(_, _)
HopsFrom(t, target) == IF t >= target THEN 0 ELSE 1 + HopsFrom(NextInstant(t), target)
Hops(t) == HopsFrom(InitialNow, t)

AdvanceTime ==
    /\ Hops(now) < MaxHops
    /\ now' = NextInstant(now)
    /\ UNCHANGED <<inflight, sessions, messages, feedback, badges, student_program,
                   questionnaire, last>>


\* instants around two week boundaries and inside the week between them:
\* Sunday 23:59:59, Monday 00:00:00, Wednesday 12:34:56, Sunday 23:59:59,
\* Monday 00:00:00
ClockInstants ==
    {InitialNow, InitialNow + 1,
     InitialNow + 1 + 2 * SecondsPerDay + 12 * 3600 + 34 * 60 + 56,
     InitialNow + SecondsPerWeek, InitialNow + SecondsPerWeek + 1}

\* time passes to a later one of ClockInstants
AdvanceClock(t) ==
    /\ t \in ClockInstants
    /\ t > now
    /\ now' = t
    /\ UNCHANGED <<inflight, sessions, messages, feedback, badges, student_program,
                   questionnaire, last>>

----------------------------------------------------------------------------

(* Progression: chat turns, session ends and the passing of time *)

\* a chat request and what the generator does on its calls (a request makes
\* its second call only after its first call returned text)
ChatRequest ==
    \E n \in TargetSessions, msg \in StudentMessages, o1 \in TextOutcomes, o2 \in TextOutcomes :
        /\ o1 = "text" \/ o2 = "text"
        /\ ChatSend(n, msg, o1, o2)

Next ==
    \/ ChatRequest
    \/ \E n \in TargetSessions : EndSession(n)
    \/ AdvanceTime

Spec == Init /\ [][Next]_vars

(* Feedback: session ends and feedback requests, with chat turns whose     *)
(* generator calls succeed                                                 *)

\* the student who owns the sessions of the store, and another
\* authenticated user
Owner == "student"
Users == {Owner, "other"}

\* main.py 398-421: submit_questionnaire as called by `user`; the row it
\* upserts carries the caller's user_id
SubmitQuestionnaireAs(user, n, answers) ==
    LET reply(code, detail) ==
            Response("submit_questionnaire", n, sessions[n].status, code, detail, 0,
                     [caller |-> user])
        row == [user_id |-> user, q1 |-> answers.q1, q2 |-> answers.q2,
                open_answer |-> answers.open_answer]
    IN
    /\ UNCHANGED <<inflight, now, sessions, messages, feedback, badges, student_program>>
    /\ IF ~QuestionnaireAllowed(feedback, n) THEN
            /\ last' = reply(403, "Questionnaire after feedback")
            /\ UNCHANGED questionnaire
       ELSE
            /\ questionnaire' = [questionnaire EXCEPT ![n] = upsert(@, row)]
            /\ last' = reply(200, "")

\* main.py 364-388: a generate-feedback request whose generator call and
\* feedback insert succeed and whose badge evaluation then fails on its
\* first store call (services.py 351-356); the handler catches the error
\* and answers 503
GenerateFeedbackBadgeFailure(n, outcome) ==
    LET ses == sessions[n]
        hist == get_history(messages[n], FeedbackHistoryLimit)
        res == generate_structured(outcome)
    IN
    /\ FeedbackAllowed(ses)
    /\ ExistingFeedback(feedback, n) = <<>>
    /\ res.ok
    /\ feedback' = [feedback EXCEPT ![n] = Append(@, res.parsed)]
    /\ last' = WithTranscript(
                    Response("generate_feedback", n, ses.status, 503,
                             "LLM unavailable: store error", 1, NoBody),
                    hist)
    /\ UNCHANGED <<inflight, now, sessions, messages, badges, student_program, questionnaire>>

----------------------------------------------------------------------------
(* main.py: generate_feedback, one step per store or generator call, for   *)
(* requests that run at the same time.  The store refuses an insert into   *)
(* feedback that repeats a session_id.                                     *)

\* the uniqueness constraint on feedback.session_id
feedback_unique_violation(fb, n) == fb[n] # <<>>

\* a generate-feedback request that has answered, with the number of
\* generator calls it made and the stage at which it ended
FeedbackDone(n, code, calls, stage) ==
    [pc |-> "done", n |-> n, code |-> code, calls |-> calls, stage |-> stage]

\* lines 312-336: the select of the session row, the status check and the
\* select of the existing feedback row
FeedbackRead(r, n) ==
    LET ses == sessions[n]
        reply(code, detail, body) ==
            Response("generate_feedback", n, ses.status, code, detail, 0, body)
    IN
    /\ inflight[r].pc = "idle"
    /\ UNCHANGED <<now, sessions, messages, feedback, badges, student_program, questionnaire>>
    /\ IF ~FeedbackAllowed(ses) THEN
            /\ inflight' = [inflight EXCEPT ![r] = FeedbackDone(n, 403, 0, "check")]
            /\ last' = reply(403, "Feedback only after completion", NoBody)
       ELSE IF ExistingFeedback(feedback, n) # <<>> THEN
            /\ inflight' = [inflight EXCEPT ![r] = FeedbackDone(n, 200, 0, "check")]
            /\ last' = reply(200, "", FeedbackStudentResponse(ExistingFeedback(feedback, n)[1]))
       ELSE
            /\ inflight' = [inflight EXCEPT ![r] =
                    [pc |-> "generate", n |-> n, ses |-> ses, calls |-> 0]]
            /\ UNCHANGED last

\* lines 338-371: the select of the transcript and the call of the
\* structured generator
FeedbackGenerate(r, outcome) ==
    LET cur == inflight[r]
        res == generate_structured(outcome)
    IN
    /\ cur.pc = "generate"
    /\ UNCHANGED <<now, sessions, messages, feedback, badges, student_program, questionnaire>>
    /\ IF ~res.ok THEN
            /\ inflight' = [inflight EXCEPT ![r] = FeedbackDone(cur.n, 503, 1, "generate")]
            /\ last' = Response("generate_feedback", cur.n, cur.ses.status, 503,
                                res.detail, 1, NoBody)
       ELSE
            /\ inflight' = [inflight EXCEPT ![r] =
                    [pc |-> "insert", n |-> cur.n, ses |-> cur.ses, calls |-> 1,
                     parsed |-> res.parsed]]
            /\ UNCHANGED last

\* lines 373-395: the insert of the feedback row and the badge evaluation;
\* an error of the store is caught and answered 503
FeedbackInsert(r) ==
    LET cur == inflight[r]
        stored == [feedback EXCEPT ![cur.n] = Append(@, cur.parsed)]
    IN
    /\ cur.pc = "insert"
    /\ UNCHANGED <<now, sessions, messages, student_program, questionnaire>>
    /\ IF feedback_unique_violation(feedback, cur.n) THEN
            /\ UNCHANGED <<feedback, badges>>
            /\ inflight' = [inflight EXCEPT ![r] = FeedbackDone(cur.n, 503, 1, "insert")]
            /\ last' = Response("generate_feedback", cur.n, cur.ses.status, 503,
                                "LLM unavailable: store error", 1, NoBody)
       ELSE
            /\ feedback' = stored
            /\ badges' = award_skill_badges_if_ready(badges, stored, SkillThreshold)
            /\ inflight' = [inflight EXCEPT ![r] = FeedbackDone(cur.n, 200, 1, "insert")]
            /\ last' = Response("generate_feedback", cur.n, cur.ses.status, 200, "", 1,
                                FeedbackStudentResponse(cur.parsed))

NextFeedback ==
    \/ \E n \in TargetSessions, msg \in StudentMessages : ChatSend(n, msg, "text", "text")
    \/ \E n \in TargetSessions : EndSession(n)
    \/ \E n \in TargetSessions, outcome \in StructOutcomes : GenerateFeedback(n, outcome)

SpecFeedback == Init /\ [][NextFeedback]_vars

(* Badges: session ends and feedback requests on four sessions, enough for *)
(* a skill to be present in more rows than the threshold                   *)

BadgeSessions == {1, 2, 3, NumSessions}

\* the evaluator fails, or returns an object with one skill or with all
BadgeOutcomes ==
    {o \in StructOutcomes :
        \/ o.kind = "quota"
        \/ o.kind = "json" /\ o.obj \in {ObjAllSkills, ObjOneSkill}}

NextBadges ==
    \/ \E n \in BadgeSessions : EndSession(n)
    \/ \E n \in BadgeSessions, outcome \in BadgeOutcomes : GenerateFeedback(n, outcome)

SpecBadges == Init /\ [][NextBadges]_vars

(* Milestones: session ends on any of the 16 sessions *)

Completed(ss) == {n \in DOMAIN ss : ss[n].status = "completed"}

NextMilestones ==
    \E n \in SessionNumbers :
        /\ Cardinality(Completed(sessions)) < MaxEnded
        /\ EndSession(n)

SpecMilestones == Init /\ [][NextMilestones]_vars

(* Questionnaire: session ends, feedback requests and questionnaire        *)
(* submissions on the first two sessions                                   *)

QuestionnaireSessions == {1, 2}

NextQuestionnaire ==
    \/ \E n \in QuestionnaireSessions : EndSession(n)
    \/ \E n \in QuestionnaireSessions, outcome \in BadgeOutcomes : GenerateFeedback(n, outcome)
    \/ \E n \in QuestionnaireSessions, answers \in Answers : SubmitQuestionnaire(n, answers)

SpecQuestionnaire == Init /\ [][NextQuestionnaire]_vars

(* Seeding: ensure_16_sessions_seeded on a store with none or some rows *)

NextSeed ==
    \E shuffled \in Shuffles, seed \in Seeds : EnsureSeeded(shuffled, RandomDraws(seed))

SpecSeed == InitSeed /\ [][NextSeed]_vars

(* Reseeding: ensure_16_sessions_seeded between the chat turns and session *)
(* ends of a seeded student                                                *)

NextReseed ==
    \/ \E n \in TargetSessions, msg \in StudentMessages : ChatSend(n, msg, "text", "text")
    \/ \E n \in TargetSessions : EndSession(n)
    \/ \E shuffled \in Shuffles, seed \in Seeds : EnsureSeeded(shuffled, RandomDraws(seed))

SpecReseed == Init /\ [][NextReseed]_vars

(* Curriculum: the student asks for the current session, chats in it and  *)
(* ends it, and also ends the sessions of TargetSessions out of turn       *)

PreferredLanguages == {"fr", "en"}

NextCurrent ==
    \/ \E lang \in PreferredLanguages : CurrentSession(InitialShuffle, RandomDraws(0), lang)
    \/ \E n \in SessionNumbers, msg \in StudentMessages :
        /\ get_available_session(sessions) = <<n>>
        /\ ChatSend(n, msg, "text", "text")
    \/ \E n \in SessionNumbers :
        /\ get_available_session(sessions) = <<n>> \/ n \in TargetSessions
        /\ EndSession(n)

SpecCurrent == Init /\ [][NextCurrent]_vars

(* Interruption: chat turns that may stop part-way, and session ends *)

NextCrash ==
    \/ ChatRequest
    \/ \E n \in TargetSessions, msg \in StudentMessages, point \in CrashPoints :
            ChatSendInterrupted(n, msg, "text", point)
    \/ \E n \in TargetSessions : EndSession(n)

SpecCrash == Init /\ [][NextCrash]_vars

(* Generator: chat turns and feedback requests with every outcome of the  *)
(* generator, and session ends, on the first two sessions                  *)

GeneratorSessions == {1, 2}

NextGenerator ==
    \/ \E n \in GeneratorSessions, msg \in StudentMessages,
          o1 \in TextOutcomes, o2 \in TextOutcomes :
            /\ o1 = "text" \/ o2 = "text"
            /\ ChatSend(n, msg, o1, o2)
    \/ \E n \in GeneratorSessions : EndSession(n)
    \/ \E n \in GeneratorSessions, outcome \in StructOutcomes : GenerateFeedback(n, outcome)

SpecGenerator == Init /\ [][NextGenerator]_vars

(* Interrupted ends: session ends that may stop part-way, and chat turns *)

NextEndCrash ==
    \/ \E n \in TargetSessions, msg \in StudentMessages : ChatSend(n, msg, "text", "text")
    \/ \E n \in TargetSessions : EndSession(n)
    \/ \E n \in TargetSessions, point \in EndCrashPoints : EndSessionInterrupted(n, point)

SpecEndCrash == Init /\ [][NextEndCrash]_vars

(* Weeks: chat turns and session ends at instants around week boundaries *)

NextWeek ==
    \/ \E n \in TargetSessions, msg \in StudentMessages : ChatSend(n, msg, "text", "text")
    \/ \E n \in TargetSessions : EndSession(n)
    \/ \E t \in ClockInstants : AdvanceClock(t)

SpecWeek == Init /\ [][NextWeek]_vars

(* Transcript: a long consultation in session 1, its end and its feedback *)

NextTranscript ==
    \/ \E msg \in StudentMessages :
        /\ Len(messages[1]) < MaxTranscript
        /\ chat_send(1, msg, "text", "text")
    \/ EndSession(1)
    \/ \E outcome \in BadgeOutcomes : GenerateFeedback(1, outcome)

SpecTranscript == Init /\ [][NextTranscript]_vars

(* Feedback with store failures during the badge evaluation *)

NextFeedbackFail ==
    \/ \E n \in BadgeSessions : EndSession(n)
    \/ \E n \in BadgeSessions, outcome \in BadgeOutcomes : GenerateFeedback(n, outcome)
    \/ \E n \in BadgeSessions, outcome \in BadgeOutcomes :
            GenerateFeedbackBadgeFailure(n, outcome)

SpecFeedbackFail == Init /\ [][NextFeedbackFail]_vars

----------------------------------------------------------------------------
(* Questionnaires submitted by the owner and by another user *)

NextQuestionnaireUsers ==
    \/ \E n \in QuestionnaireSessions : EndSession(n)
    \/ \E n \in QuestionnaireSessions, outcome \in BadgeOutcomes : GenerateFeedback(n, outcome)
    \/ \E user \in Users, n \in QuestionnaireSessions, answers \in Answers :
            SubmitQuestionnaireAs(user, n, answers)

SpecQuestionnaireUsers == Init /\ [][NextQuestionnaireUsers]_vars

----------------------------------------------------------------------------
(* Feedback race: two generate-feedback requests at the same time *)

RaceSessions == {1, 2}

NextFeedbackRace ==
    \/ \E n \in RaceSessions : EndSession(n)
    \/ \E r \in Requests :
        \/ \E n \in RaceSessions : FeedbackRead(r, n)
        \/ \E outcome \in BadgeOutcomes : FeedbackGenerate(r, outcome)
        \/ FeedbackInsert(r)

SpecFeedbackRace == Init /\ [][NextFeedbackRace]_vars

----------------------------------------------------------------------------
(* Chat race: two chat requests on sessions 1 and 2 at the same time *)

RaceOutcomes == {"text", "quota"}

NextChatRace ==
    \E r \in Requests :
        \/ \E n \in RaceSessions : ChatRead(r, n)
        \/ ChatStart(r)
        \/ ChatReadExisting(r)
        \/ \E outcome \in RaceOutcomes : ChatReadTurn(r, outcome)
        \/ \E msg \in StudentMessages : ChatInsert(r, msg)

SpecChatRace == Init /\ [][NextChatRace]_vars

----------------------------------------------------------------------------
(* Chat and end-session race: end-session requests between the store     *)
(* calls of chat requests                                                 *)

NextChatEndRace ==
    \/ NextChatRace
    \/ \E n \in RaceSessions : EndSession(n)

SpecChatEndRace == Init /\ [][NextChatEndRace]_vars

----------------------------------------------------------------------------
(* Curriculum: the student sends a chat turn to the active session and   *)
(* then ends it, one request at a time, while the weeks pass              *)

\* the session has a student message answered by the patient
TurnDone(n) ==
    /\ Len(messages[n]) >= 2
    /\ messages[n][Len(messages[n])].role = "patient"

\* a chat request to the active session whose generator calls succeed
StudentChat ==
    \E n \in SessionNumbers, msg \in StudentMessages :
        /\ get_available_session(sessions) = <<n>>
        /\ ~TurnDone(n)
        /\ chat_send(n, msg, "text", "text")

\* a chat request to the active session with a failing generator call
StudentChatFailing ==
    \E n \in GeneratorSessions, msg \in StudentMessages,
       o1 \in TextOutcomes, o2 \in TextOutcomes :
        /\ get_available_session(sessions) = <<n>>
        /\ ~TurnDone(n)
        /\ o1 # "text" \/ o2 # "text"
        /\ Len(messages[n]) + 3 <= MaxMsgs
        /\ chat_send(n, msg, o1, o2)

\* an end-session request for the active session after its chat turn
StudentEnd ==
    \E n \in SessionNumbers :
        /\ get_available_session(sessions) = <<n>>
        /\ TurnDone(n)
        /\ EndSession(n)

\* the clock reaches the Monday of the next week once the weekly limit is
\* reached
WeekAdvance ==
    /\ sessions_completed_this_week(sessions, now) >= WeeklyLimit
    /\ now' = iso_week_start(now) + SecondsPerWeek
    /\ UNCHANGED <<inflight, sessions, messages, feedback, badges, student_program,
                   questionnaire, last>>

NextCurriculum ==
    \/ StudentChat
    \/ StudentChatFailing
    \/ StudentEnd
    \/ WeekAdvance

SpecCurriculum == Init /\ [][NextCurriculum]_vars

\* requests are answered, generator calls eventually succeed, and the week
\* keeps advancing
SpecCurriculumFair ==
    /\ SpecCurriculum
    /\ WF_vars(StudentChat)
    /\ WF_vars(StudentEnd)
    /\ WF_vars(WeekAdvance)

----------------------------------------------------------------------------
(* Seeding race: two requests seed a brand-new student at the same time *)

RaceShuffles == {InitialShuffle, <<NumSessions, 3, 2, NumSessions - 1>>}
RaceSeeds == {0, 5}

NextSeedRace ==
    \E r \in Requests :
        \/ SeedReadProgram(r)
        \/ \E shuffled \in RaceShuffles : SeedInsertProgram(r, shuffled)
        \/ SeedReadSessions(r)
        \/ \E seed \in RaceSeeds : SeedInsertSessions(r, RandomDraws(seed))

SpecSeedRace == InitNewStudent /\ [][NextSeedRace]_vars

----------------------------------------------------------------------------
(* Properties of the progression (specification Spec) *)

StatusSteps == {<<"locked", "available">>, <<"available", "in_progress">>,
                <<"in_progress", "completed">>}

\* C1: every change of a session's status is one step along
\* locked -> available -> in_progress -> completed, and a locked session
\* changes status only in the request that completes the session numbered
\* one below it.
C1_StatusChangesOneStep ==
    [][\A n \in SessionNumbers :
          sessions'[n].status # sessions[n].status =>
             /\ <<sessions[n].status, sessions'[n].status>> \in StatusSteps
             /\ sessions[n].status = "locked" =>
                   /\ n > 1
                   /\ sessions[n - 1].status # "completed"
                   /\ sessions'[n - 1].status = "completed"]_vars

\* C2: an end-session request on a completed session answers status
\* completed and changes no session row (status and ended_at included), no
\* badge and nothing else in the store.
C2_EndCompletedIsNoOp ==
    [][\A n \in TargetSessions :
          (sessions[n].status = "completed" /\ EndSession(n)) =>
             /\ last'.code = 200
             /\ last'.body.status = "completed"
             /\ sessions' = sessions
             /\ badges' = badges
             /\ messages' = messages
             /\ feedback' = feedback]_vars

C2_Witness ==
    /\ last.op = "end_session"
    /\ last.ses_status = "completed"
    /\ now > sessions[last.session].ended_at

\* C3: an end-session request that completes session n makes session n + 1
\* available if and only if it was locked, leaves it untouched otherwise, and
\* changes the status of no session other than n and n + 1; for the last
\* session it changes the status of no other session.
C3_UnlockFrame ==
    [][\A n \in TargetSessions :
          (sessions[n].status # "completed" /\ EndSession(n)) =>
             /\ sessions'[n].status = "completed"
             /\ \A m \in SessionNumbers \ {n, n + 1} :
                   sessions'[m].status = sessions[m].status
             /\ n < NumSessions =>
                   IF sessions[n + 1].status = "locked"
                   THEN sessions'[n + 1].status = "available"
                   ELSE sessions'[n + 1] = sessions[n + 1]]_vars

C3_Witness ==
    /\ last.op = "end_session"
    /\ last.session = 1
    /\ last.ses_status = "in_progress"
    /\ sessions[1].status = "completed"
    /\ sessions[2].status = "completed"
    /\ sessions[3].status = "available"
    /\ sessions[2].ended_at < sessions[1].ended_at

\* the ISO week of an instant, counted from Monday 1969-12-29 00:00:00 UTC
WeekOf(t) == (t + 3 * SecondsPerDay) \div SecondsPerWeek

CompletedInWeekOf(t) ==
    {n \in SessionNumbers :
        sessions[n].status = "completed" /\ WeekOf(sessions[n].ended_at) = WeekOf(t)}

\* a step in which a chat request for session n is answered (the clock and
\* the other requests leave another answer in last, or move the clock)
ChatStep(n) ==
    /\ last'.op = "chat_send"
    /\ last'.session = n
    /\ now' = now

RateLimited(resp) ==
    resp.code = 403 /\ resp.detail = "Limite: 2 sessions par semaine"

\* C4: a chat request is refused as rate-limited exactly when its session is
\* available and 2 or more of the student's sessions were completed in the
\* current ISO week; with fewer the session becomes in_progress; a session in
\* progress is never rate-limited; a refusal leaves the session available and
\* stores no message.
C4_WeeklyLimit ==
    [][\A n \in TargetSessions :
          ChatStep(n) =>
             /\ RateLimited(last') <=>
                   /\ sessions[n].status = "available"
                   /\ Cardinality(CompletedInWeekOf(now)) >= 2
             /\ (sessions[n].status = "available"
                    /\ Cardinality(CompletedInWeekOf(now)) < 2) =>
                   sessions'[n].status = "in_progress"
             /\ sessions[n].status = "in_progress" => ~RateLimited(last')
             /\ RateLimited(last') =>
                   /\ sessions' = sessions
                   /\ sessions'[n].status = "available"
                   /\ messages' = messages]_vars

C4_Witness ==
    /\ last.op = "chat_send"
    /\ RateLimited(last)
    /\ \E n \in SessionNumbers :
          sessions[n].status = "completed" /\ WeekOf(sessions[n].ended_at) # WeekOf(now)

\* C5: the turn indices of the messages stored for a session are exactly
\* 1..k for its k messages, without gap or repeat, also after requests that
\* failed between two inserts.
C5_TurnIndicesContiguous ==
    \A n \in SessionNumbers :
        /\ {messages[n][i].turn_index : i \in DOMAIN messages[n]} = 1..Len(messages[n])
        /\ \A i, j \in DOMAIN messages[n] :
              messages[n][i].turn_index = messages[n][j].turn_index => i = j

C5_Witness ==
    /\ last.op = "chat_send"
    /\ last.code = 200
    /\ Len(messages[last.session]) = 3
    /\ messages[last.session][1].role = "student"
    /\ messages[last.session][2].role = "student"
    /\ messages[last.session][3].role = "patient"

----------------------------------------------------------------------------
(* Properties of the feedback gate (specification SpecFeedback) *)

\* a step in which a generate-feedback request for session n is answered
FeedbackStep(n) ==
    /\ last'.op = "generate_feedback"
    /\ last'.session = n
    /\ now' = now

\* C6: a generate-feedback request on a session that is not completed is
\* refused with 403 without a generator call or a write, and a feedback row
\* exists only for a completed session.
C6_FeedbackOnlyWhenCompleted ==
    /\ [](\A n \in SessionNumbers :
            feedback[n] # <<>> => sessions[n].status = "completed")
    /\ [][\A n \in TargetSessions :
            (FeedbackStep(n) /\ sessions[n].status # "completed") =>
               /\ last'.code = 403
               /\ last'.gen_calls = 0
               /\ feedback' = feedback
               /\ badges' = badges
               /\ sessions' = sessions
               /\ messages' = messages]_vars

C6_Witness ==
    /\ last.op = "generate_feedback"
    /\ last.code = 403
    /\ last.ses_status = "in_progress"
    /\ \E n \in SessionNumbers : feedback[n] # <<>>

\* the student's view of a feedback row
SameFeedback(body, row) ==
    /\ DOMAIN body = {"language", "student_facing", "internal_scores"}
    /\ body.language = row.language
    /\ body.student_facing = row.student_facing
    /\ body.internal_scores = row.internal_scores

\* C7: the request that stores the feedback row of a session answers with
\* that row's language, student_facing and internal_scores; every later
\* request for the session answers with the same three values, makes no
\* generator call and leaves the table unchanged; no session has two rows.
C7_FeedbackIdempotent ==
    /\ [](\A n \in SessionNumbers : Len(feedback[n]) <= 1)
    /\ [][\A n \in TargetSessions :
            (FeedbackStep(n) /\ feedback[n] = <<>> /\ feedback'[n] # <<>>) =>
               /\ last'.code = 200
               /\ SameFeedback(last'.body, feedback'[n][1])]_vars
    /\ [][\A n \in TargetSessions :
            (FeedbackStep(n) /\ feedback[n] # <<>>) =>
               /\ last'.code = 200
               /\ last'.gen_calls = 0
               /\ SameFeedback(last'.body, feedback[n][1])
               /\ feedback' = feedback
               /\ badges' = badges]_vars

C7_Witness ==
    /\ last.op = "generate_feedback"
    /\ last.code = 200
    /\ last.gen_calls = 0
    /\ feedback[last.session] # <<>>

\* what the evaluator returns when its output is empty, is not JSON, or is
\* JSON that the schema rejects
MalformedOutcomes ==
    {[kind |-> k, obj |-> ObjNoKpis] : k \in {"empty", "invalid_json"}}
    \cup {[kind |-> "json", obj |-> o] :
            o \in {ObjScoreNotInt, ObjFewStrengths, ObjShortQuestion,
                   ObjMissingSkill, ObjBadLanguage, ObjNoKpis}}

C9_StoredScoresInSchema ==
    \A n \in SessionNumbers : \A i \in DOMAIN feedback[n] :
        /\ DOMAIN feedback[n][i].internal_scores = ScoreKeys
        /\ \A k \in DOMAIN feedback[n][i].internal_scores :
              feedback[n][i].internal_scores[k] \in 1..5

\* the number of the student's feedback rows whose indicator k is true
RowsWithSkill(k) ==
    Cardinality({p \in SessionNumbers \X (1..NumSessions) :
                    /\ p[2] \in DOMAIN feedback[p[1]]
                    /\ feedback[p[1]][p[2]].skill_indicators[k]})

\* C10: after a generate-feedback request that stored a row, the student
\* holds the badge of a skill if and only if at least 3 stored feedback rows
\* have that skill's indicator true.
C10_SkillBadgeAtThreshold ==
    (last.op = "generate_feedback" /\ last.code = 200 /\ last.gen_calls = 1) =>
        \A k \in SkillKeys :
            badges[SKILL_BADGES(k)] > 0 <=> RowsWithSkill(k) >= 3

C10_Witness ==
    /\ last.op = "generate_feedback"
    /\ last.code = 200
    /\ last.gen_calls = 1
    /\ badges["SKILL_ACTIVE_LISTENING"] = 1
    /\ badges["SKILL_REFORMULATION"] = 0
    /\ RowsWithSkill("reformulation") = 2

----------------------------------------------------------------------------
(* Properties of the badges (specification SpecBadges) *)

\* C11: over any sequence of end-session and generate-feedback requests,
\* the student holds at most one badge row per badge code, and a badge row,
\* once created, is never removed.
C11_BadgeRowsUniqueAndKept ==
    /\ [](\A c \in BadgeCodes : badges[c] <= 1)
    /\ [][\A c \in BadgeCodes : badges'[c] >= badges[c]]_vars

\* a fourth feedback row with the skill was stored while the badge was held
C11_Witness ==
    /\ last.op = "generate_feedback"
    /\ last.gen_calls = 1
    /\ RowsWithSkill("active_listening") = SkillThreshold + 1
    /\ badges[SKILL_BADGES("active_listening")] = 1
    /\ badges[MILESTONE_BADGES(1)] = 1

----------------------------------------------------------------------------
(* Properties of the milestones (specification SpecMilestones) *)

EndStep(n) == last'.op = "end_session" /\ last'.session = n /\ now' = now

ExpectedMilestone ==
    1 :> "MILESTONE_SESSION_1" @@ 4 :> "MILESTONE_SESSION_4"
    @@ 8 :> "MILESTONE_SESSION_8" @@ 12 :> "MILESTONE_SESSION_12"
    @@ 16 :> "MILESTONE_SESSION_16"

\* C12: an end-session request that completes session n adds the badge
\* MILESTONE_SESSION_n when n is 1, 4, 8, 12 or 16 and adds no badge for any
\* other n; the five milestone badge codes are pairwise distinct.
C12_MilestoneBadges ==
    /\ [](Cardinality({MILESTONE_BADGES(n) : n \in MilestoneSessions}) = 5)
    /\ [][\A n \in SessionNumbers :
            (EndStep(n) /\ sessions[n].status # "completed"
                        /\ sessions'[n].status = "completed") =>
                badges' = [c \in BadgeCodes |->
                    IF n \in DOMAIN ExpectedMilestone /\ ExpectedMilestone[n] = c
                    THEN badges[c] + 1 ELSE badges[c]]]_vars

\* sessions 8, 9 and 12 were completed: two badges, none for session 9
C12_Witness ==
    /\ last.op = "end_session"
    /\ last.session = 9
    /\ Completed(sessions) = {8, 9, 12}
    /\ {c \in BadgeCodes : badges[c] > 0} = {"MILESTONE_SESSION_8", "MILESTONE_SESSION_12"}

----------------------------------------------------------------------------
(* Properties of the questionnaire (specification SpecQuestionnaire) *)

QuestionnaireStep(n) ==
    last'.op = "submit_questionnaire" /\ last'.session = n /\ now' = now

\* C13: submit-questionnaire fails with Forbidden and writes nothing unless
\* a feedback row exists for the session, and a questionnaire row exists
\* only for a session that has a feedback row.
C13_QuestionnaireAfterFeedback ==
    /\ [](\A n \in SessionNumbers : questionnaire[n] # <<>> => feedback[n] # <<>>)
    /\ [][\A n \in SessionNumbers :
            (QuestionnaireStep(n) /\ feedback[n] = <<>>) =>
                /\ last'.code = 403
                /\ UNCHANGED <<sessions, messages, feedback, badges,
                               student_program, questionnaire>>]_vars

\* session 1 holds a questionnaire row; a submission for session 2, which
\* is completed and has no feedback row, was refused
C13_Witness ==
    /\ last.op = "submit_questionnaire"
    /\ last.session = 2
    /\ last.code = 403
    /\ sessions[2].status = "completed"
    /\ feedback[2] = <<>>
    /\ questionnaire[1] # <<>>

----------------------------------------------------------------------------
(* Properties of the seeding (specification SpecSeed) *)

SeedStep == last'.op = "ensure_seeded"

NoAdjacentEqual(ss) ==
    \A n \in DOMAIN ss : (n + 1) \in DOMAIN ss => ss[n].difficulty # ss[n + 1].difficulty

\* C14: after seeding a student who has no session rows there are exactly
\* 16 rows numbered 1..16, session 1 has difficulty L1 and is available,
\* sessions 2..16 are locked, and no two consecutive sessions share a
\* difficulty, whatever the random choices.
C14_FreshSeeding ==
    [][(SeedStep /\ DOMAIN sessions = {}) =>
            /\ DOMAIN sessions' = 1..16
            /\ sessions'[1].difficulty = "L1"
            /\ sessions'[1].status = "available"
            /\ \A n \in 2..16 : sessions'[n].status = "locked"
            /\ \A n \in 1..15 : sessions'[n].difficulty # sessions'[n + 1].difficulty]_vars

\* a seeding inserted all 16 rows, with every difficulty among them
C14_Witness ==
    /\ last.op = "ensure_seeded"
    /\ last.body.rows_inserted = 16
    /\ {sessions[n].difficulty : n \in DOMAIN sessions} = {"L1", "L2", "L3"}
    /\ sessions[2].difficulty = "L3"

\* C16: from a store that holds a proper subset of the 16 rows (with no two
\* adjacent equal difficulties, and L1 for session 1 if present), seeding
\* inserts only the missing numbers and the 16 rows have no two consecutive
\* numbers with the same difficulty.
C16_PartialSeeding ==
    [][(/\ SeedStep
        /\ DOMAIN sessions # SessionNumbers
        /\ NoAdjacentEqual(sessions)
        /\ (1 \in DOMAIN sessions => sessions[1].difficulty = "L1")) =>
            /\ DOMAIN sessions' = SessionNumbers
            /\ \A n \in DOMAIN sessions : sessions'[n] = sessions[n]
            /\ NoAdjacentEqual(sessions')]_vars

ProgramSets(row) ==
    [immediate |-> set(row.reorientation_immediate_sessions),
     delayed |-> set(row.reorientation_delayed_sessions)]

\* C17: the program's immediate and delayed sets are disjoint, have exactly
\* 2 members each and lie within 2..16; a second ensure-program call changes
\* nothing; after a fresh seeding a session's reorientation is immediate iff
\* its number is in the immediate set, delayed iff in the delayed set, and
\* none otherwise (session 1 is always none).
C17_Program ==
    /\ [](\A i \in DOMAIN student_program :
            LET row == student_program[i]
                sets == ProgramSets(row)
            IN  /\ Len(student_program) = 1
                /\ sets.immediate \cap sets.delayed = {}
                /\ Len(row.reorientation_immediate_sessions) = 2
                /\ Len(row.reorientation_delayed_sessions) = 2
                /\ Cardinality(sets.immediate) = 2
                /\ Cardinality(sets.delayed) = 2
                /\ sets.immediate \cup sets.delayed \subseteq 2..16)
    /\ [][(SeedStep /\ student_program # <<>>) => student_program' = student_program]_vars
    /\ [][(SeedStep /\ DOMAIN sessions = {}) =>
            LET sets == ProgramSets(student_program'[1])
            IN  /\ sessions'[1].reorientation = "none"
                /\ \A n \in SessionNumbers :
                    /\ sessions'[n].reorientation = "immediate" <=> n \in sets.immediate
                    /\ sessions'[n].reorientation = "delayed" <=> n \in sets.delayed
                    /\ sessions'[n].reorientation = "none"
                            <=> n \notin sets.immediate \cup sets.delayed]_vars

\* a new student was seeded: program and 16 rows inserted by one call
C17_Witness ==
    /\ last.op = "ensure_seeded"
    /\ last.body.rows_inserted = 16
    /\ student_program # <<>>
    /\ student_program[1].reorientation_immediate_sessions = <<3, 16>>
    /\ student_program[1].reorientation_delayed_sessions = <<2, 15>>
    /\ sessions[16].reorientation = "immediate"
    /\ sessions[2].reorientation = "delayed"
    /\ sessions[4].reorientation = "none"

----------------------------------------------------------------------------
(* Properties of the reseeding (specification SpecReseed) *)

\* C15: seeding is idempotent: ensure-seeded for a student who has 16
\* session rows, in any mix of statuses reached through chat-send and
\* end-session, inserts no session row and changes no field of any session
\* row or of the student program.
C15_SeedingIdempotent ==
    [][(SeedStep /\ Cardinality(DOMAIN sessions) = 16) =>
            /\ last'.body.rows_inserted = 0
            /\ sessions' = sessions
            /\ student_program' = student_program]_vars

\* ensure-seeded ran while session 1 was completed, session 2 in progress
\* with messages, session 3 locked
C15_Witness ==
    /\ last.op = "ensure_seeded"
    /\ sessions[1].status = "completed"
    /\ sessions[2].status = "in_progress"
    /\ sessions[3].status = "locked"
    /\ messages[2] # <<>>

----------------------------------------------------------------------------
(* Properties of current-session (specification SpecCurrent) *)

Active(ss) == {n \in DOMAIN ss : ss[n].status = "available" \/ ss[n].status = "in_progress"}

\* C18: get-active-session returns the session with the smallest number
\* among those available or in_progress, and returns none exactly when no
\* session has either status.
C18_LowestActiveSession ==
    [][last'.op = "current_session" =>
            IF Active(sessions') = {}
            THEN last'.body = [done |-> TRUE]
            ELSE /\ last'.body # [done |-> TRUE]
                 /\ last'.body.session_number \in Active(sessions')
                 /\ \A m \in Active(sessions') : last'.body.session_number <= m
                 /\ last'.body.status = sessions'[last'.body.session_number].status]_vars

\* current-session answered with session 1 while session 3 was available too
C18_Witness ==
    /\ last.op = "current_session"
    /\ last.body = [session_number |-> 1, status |-> "in_progress", patient_age |-> 12,
                    patient_gender_label |-> "Girl"]
    /\ sessions[3].status = "available"

\* current-session answered done: all 16 sessions are completed
C18_WitnessDone ==
    /\ last.op = "current_session"
    /\ last.body = [done |-> TRUE]
    /\ \A n \in SessionNumbers : sessions[n].status = "completed"

----------------------------------------------------------------------------
(* Order of the rows a chat turn appends (specification Spec) *)

Roles(rows) == [i \in DOMAIN rows |-> rows[i].role]

----------------------------------------------------------------------------
(* Properties of interrupted chat turns (specification SpecCrash) *)

\* C20: a session never holds more than one synthesized opening message:
\* when chat-send is interrupted after inserting the opening and before the
\* student message, re-driving the request synthesizes no second opening;
\* the only patient message that precedes the first student message is the
\* one at turn index 1.
C20_SingleOpening ==
    \A n \in SessionNumbers :
        \A i \in DOMAIN messages[n] :
            (/\ messages[n][i].role = "patient"
             /\ \A j \in 1..(i - 1) : messages[n][j].role # "student") =>
                /\ i = 1
                /\ messages[n][i].turn_index = 1

\* the request was re-driven after a run that stopped behind the opening:
\* it made one generator call and the session holds opening, student, reply
C20_Witness ==
    /\ last.op = "chat_send"
    /\ last.code = 200
    /\ last.gen_calls = 1
    /\ sessions[last.session].patient_opening_starts
    /\ Roles(messages[last.session]) = <<"patient", "student", "patient">>

----------------------------------------------------------------------------
(* Properties of refusals and generator failures (specification SpecGenerator) *)

\* C21: a chat-send request on a completed session fails with Conflict
\* (status 400, "Session already completed") and one on a locked session
\* fails with Forbidden (status 403); in both cases no generator is invoked
\* and the session row and the session's messages are unchanged.
C21_ChatRefusedWithoutEffect ==
    [][\A n \in SessionNumbers :
        (ChatStep(n) /\ sessions[n].status \in {"completed", "locked"}) =>
            /\ last'.code = (IF sessions[n].status = "completed" THEN 400 ELSE 403)
            /\ last'.gen_calls = 0
            /\ sessions' = sessions
            /\ messages' = messages]_vars

\* a chat turn on session 1, completed with messages, was refused while
\* session 2 had been refused as locked before and is now in progress
C21_Witness ==
    /\ last.op = "chat_send"
    /\ last.session = 1
    /\ last.ses_status = "completed"
    /\ last.code = 400
    /\ messages[1] # <<>>
    /\ sessions[2].status = "in_progress"

\* a chat turn on the locked session 2 was refused
C21_WitnessLocked ==
    /\ last.op = "chat_send"
    /\ last.session = 2
    /\ last.ses_status = "locked"
    /\ last.code = 403
    /\ messages[2] = <<>>

\* C22: every failure of the external generator during chat-send or
\* generate-feedback is reported as service-unavailable (503) and never as
\* a generic server error.
C22_GeneratorFailureIs503 ==
    [][(last'.op \in {"chat_send", "generate_feedback"}
            /\ last'.gen_calls > 0 /\ last'.code # 200) => last'.code = 503]_vars

\* the part of C22 about generate-feedback alone
C22_FeedbackFailureIs503 ==
    [][(last'.op = "generate_feedback"
            /\ last'.gen_calls > 0 /\ last'.code # 200) => last'.code = 503]_vars

----------------------------------------------------------------------------
(* Properties of interrupted session ends (specification SpecEndCrash) *)

\* C23: completion is order-safe under partial completion: when an
\* end-session request for session N < 16 was interrupted after the session
\* was marked completed and before the unlock or the badge award, an
\* end-session request for N that is answered leaves session N+1 not locked
\* and the milestone badge of N (if one is defined) held.
C23_EndSessionRedriven ==
    [][\A n \in SessionNumbers :
        (EndStep(n) /\ last'.code = 200) =>
            /\ n < NumSessions => sessions'[n + 1].status # "locked"
            /\ n \in MilestoneSessions => badges'[MILESTONE_BADGES(n)] >= 1]_vars

----------------------------------------------------------------------------
(* Properties of the weekly count (specification SpecWeek) *)

\* Monday 00:00:00 UTC of the week containing t (1970-01-05 was a Monday)
MondayOf(t) == t - ((t - 4 * SecondsPerDay) % SecondsPerWeek)

\* C24: the weekly count is exactly the number of the student's sessions
\* with status completed whose ended_at t satisfies
\* weekStart <= t < weekStart + 7 days, where weekStart is Monday 00:00:00
\* UTC of the week containing the current time; a session ended at Monday
\* 00:00:00 counts in the week that starts then, one ended at Sunday
\* 23:59:59 in the week that ends then.
C24_WeeklyCountExact ==
    /\ iso_week_start(now) = MondayOf(now)
    /\ sessions_completed_this_week(sessions, now) =
        Cardinality({n \in SessionNumbers :
            /\ sessions[n].status = "completed"
            /\ MondayOf(now) <= sessions[n].ended_at
            /\ sessions[n].ended_at < MondayOf(now) + 7 * SecondsPerDay})

\* on Wednesday a chat turn started session 2 after the count was read:
\* session 16 ended on the Sunday before, at 23:59:59, session 1 on Monday
\* at 00:00:00, and the count is 1
C24_Witness ==
    /\ last.op = "chat_send"
    /\ last.session = 2
    /\ last.ses_status = "available"
    /\ last.code = 200
    /\ now = InitialNow + 1 + 2 * SecondsPerDay + 12 * 3600 + 34 * 60 + 56
    /\ sessions[NumSessions].status = "completed"
    /\ sessions[NumSessions].ended_at = InitialNow
    /\ sessions[1].status = "completed"
    /\ sessions[1].ended_at = InitialNow + 1
    /\ sessions_completed_this_week(sessions, now) = 1

----------------------------------------------------------------------------
(* Properties of the student's view of feedback (specification SpecGenerator) *)

HiddenKeys == {"skill_indicators", "kpis"}

\* C25: the response of generate-feedback to the student never contains
\* skill_indicators or kpis, both when the feedback is freshly generated and
\* when an already stored row is returned by the idempotent short-circuit.
C25_StudentResponseHidesInternals ==
    [][\A n \in SessionNumbers :
        (FeedbackStep(n) /\ last'.code = 200) =>
            /\ feedback'[n] # <<>>
            /\ DOMAIN last'.body \cap HiddenKeys = {}
            /\ DOMAIN last'.body.student_facing \cap HiddenKeys = {}
            /\ last'.body = [k \in DOMAIN last'.body |-> feedback'[n][1][k]]]_vars

\* a stored row with skill indicators and kpis was returned by the
\* short-circuit, after it had been generated
C25_Witness ==
    /\ last.op = "generate_feedback"
    /\ last.code = 200
    /\ last.gen_calls = 0
    /\ feedback[last.session] # <<>>
    /\ HiddenKeys \subseteq DOMAIN feedback[last.session][1]
    /\ feedback[last.session][1].skill_indicators["active_listening"]
    /\ feedback[last.session][1].kpis = Kpis

\* a freshly generated row was answered
C25_WitnessFresh ==
    /\ last.op = "generate_feedback"
    /\ last.code = 200
    /\ last.gen_calls = 1
    /\ HiddenKeys \subseteq DOMAIN feedback[last.session][1]

----------------------------------------------------------------------------
(* Properties of the evaluated transcript (specification SpecTranscript) *)

\* C26: the transcript that generate-feedback passes to the structured
\* generator contains every stored message of the session, in ascending
\* turn order, whatever the number of messages in the session.
C26_TranscriptComplete ==
    [][\A n \in SessionNumbers :
        (FeedbackStep(n) /\ last'.gen_calls = 1) =>
            /\ last'.transcript = messages[n]
            /\ \A i \in 1..(Len(last'.transcript) - 1) :
                last'.transcript[i].turn_index < last'.transcript[i + 1].turn_index]_vars

\* the same for sessions that hold at most FeedbackHistoryLimit messages
C26_TranscriptCompleteUpToLimit ==
    [][\A n \in SessionNumbers :
        (FeedbackStep(n) /\ last'.gen_calls = 1
                /\ Len(messages[n]) <= FeedbackHistoryLimit) =>
            /\ last'.transcript = messages[n]
            /\ \A i \in 1..(Len(last'.transcript) - 1) :
                last'.transcript[i].turn_index < last'.transcript[i + 1].turn_index]_vars

----------------------------------------------------------------------------
(* Properties of the curriculum's shape (specifications SpecCurrent, Spec) *)

\* C29: for every ISO week, after any sequence of chat-send and end-session
\* requests, the number of the student's sessions with status completed and
\* ended_at inside that week never exceeds 2.
C29_AtMostTwoCompletedPerWeek ==
    \A n \in Completed(sessions) :
        Cardinality({m \in Completed(sessions) :
            MondayOf(sessions[m].ended_at) = MondayOf(sessions[n].ended_at)}) <= 2

\* C30: the completed sessions are exactly sessions 1..k for some k in
\* 0..16, at most one session is available or in_progress (session k+1),
\* and every session numbered above k+1 is locked.
C30_CompletedPrefix ==
    \E k \in 0..16 :
        /\ Completed(sessions) = 1..k
        /\ Active(sessions) \subseteq {k + 1}
        /\ \A n \in SessionNumbers : n > k + 1 => sessions[n].status = "locked"

----------------------------------------------------------------------------
(* Properties of concurrent seeding (specification SpecSeedRace) *)

\* both requests have run to their end and both read zero session rows
BothSeededFromEmpty ==
    \A r \in Requests : inflight[r].pc = "done" /\ inflight[r].existing_nums = {}

\* C28: when two requests that trigger seeding for the same brand-new
\* student interleave (both read zero existing sessions before either
\* inserts) and the store enforces uniqueness on (user_id, session_number),
\* the student ends with exactly one session row per number 1..16 and
\* exactly one student program row.
C28_ConcurrentSeeding ==
    BothSeededFromEmpty =>
        /\ DOMAIN sessions = SessionNumbers
        /\ Len(student_program) = 1

\* the part of C28 about the session rows
C28_SessionRowsOnce ==
    BothSeededFromEmpty =>
        /\ DOMAIN sessions = SessionNumbers
        /\ \E r \in Requests : inflight[r].code = 400

----------------------------------------------------------------------------
(* Properties of concurrent chat requests (specification SpecChatRace) *)

\* the turn indices of every session are 1..k, each once
TurnsContiguous ==
    \A n \in DOMAIN messages :
        \A i \in DOMAIN messages[n] : messages[n][i].turn_index = i

\* an insert whose turn index is already stored fails its request and
\* stores nothing
LosingInsertFails ==
    \A r \in Requests :
        (/\ inflight[r].pc = "insert"
         /\ inflight'[r] # inflight[r]
         /\ messages_unique_violation(messages[inflight[r].n], inflight[r].t))
        => /\ inflight'[r].pc = "done"
           /\ inflight'[r].code # 200
           /\ messages' = messages

\* C27: when two chat-sends on the same session interleave and the store
\* enforces uniqueness on (session_id, turn_index), the insert that repeats
\* a turn index fails its request, and the stored turn indices of the
\* session stay contiguous 1..k with no repeat.
C27_ConcurrentChat == []TurnsContiguous /\ [][LosingInsertFails]_vars

\* one request lost an insert and answered 500, the other stored its three
\* messages on the same session
C27_Witness ==
    /\ inflight[1] = Done(1, 500)
    /\ inflight[2] = Done(1, 200)
    /\ Len(messages[1]) = 3

----------------------------------------------------------------------------
(* Properties of failed requests (specification SpecGenerator) *)

\* C31: a chat-send request that ends in failure leaves the stored messages
\* and the status of its session exactly as they were before the request,
\* so sending the same message again does not leave two copies of the
\* student message.
C31_FailedChatLeavesNoTrace ==
    [][\A n \in SessionNumbers :
        (ChatStep(n) /\ last'.code # 200)
        => /\ messages'[n] = messages[n]
           /\ sessions'[n].status = sessions[n].status]_vars

\* the part of C31 that holds: a failed chat-send removes or rewrites no
\* stored message
C31_FailedChatKeepsStored ==
    [][\A n \in SessionNumbers :
        (ChatStep(n) /\ last'.code # 200)
        => /\ Len(messages'[n]) >= Len(messages[n])
           /\ SubSeq(messages'[n], 1, Len(messages[n])) = messages[n]]_vars

\* C32: a generate-feedback request that responds with a failure leaves no
\* feedback row stored for the session, also when the failure happens in
\* the skill-badge evaluation after the feedback insert.
C32_FailedFeedbackStoresNothing ==
    [][\A n \in SessionNumbers :
        (FeedbackStep(n) /\ last'.code # 200) => feedback'[n] = <<>>]_vars

\* the part of C32 about the generator: a request whose generator call
\* fails stores no feedback row
C32_GeneratorFailureStoresNothing ==
    [][\A n \in SessionNumbers :
        (FeedbackStep(n) /\ last'.code # 200 /\ feedback[n] = <<>>
            /\ last'.detail # "LLM unavailable: store error")
        => feedback'[n] = <<>>]_vars

----------------------------------------------------------------------------
(* Properties of questionnaire ownership (specification SpecQuestionnaireUsers) *)

\* C33: every stored questionnaire row belongs to the owner of its session:
\* a submit-questionnaire request by another user never creates or
\* overwrites a questionnaire row of the session.
C33_QuestionnaireRowsOfOwner ==
    /\ \A n \in DOMAIN questionnaire :
            \A i \in DOMAIN questionnaire[n] : questionnaire[n][i].user_id = Owner
    /\ (last.op = "submit_questionnaire" /\ last.body.caller # Owner) => last.code # 200

\* the part of C33 that holds: before feedback exists nobody stores a
\* questionnaire row
C33_NoRowBeforeFeedback ==
    \A n \in DOMAIN questionnaire : feedback[n] = <<>> => questionnaire[n] = <<>>

----------------------------------------------------------------------------
(* Properties of concurrent generate-feedback requests (specification SpecFeedbackRace) *)

\* the requests that passed the existence check for session n and to which
\* the structured generator returned an object
GeneratorCallers(n) ==
    {r \in Requests : /\ inflight[r].pc \in {"insert", "done"}
                      /\ inflight[r].n = n
                      /\ inflight[r].pc = "done" => inflight[r].stage = "insert"}

\* C34: for each session the structured generator is invoked at most once
\* after which a feedback row is stored, also when two generate-feedback
\* requests for the same completed session interleave: the two never both
\* pass the existence check and both invoke the generator.
C34_GeneratorInvokedOnce ==
    \A n \in SessionNumbers :
        feedback[n] # <<>> => Cardinality(GeneratorCallers(n)) <= 1

\* the part of C34 about the stored rows: a session never holds two
\* feedback rows
C34_OneFeedbackRow ==
    \A n \in SessionNumbers : Len(feedback[n]) <= 1

----------------------------------------------------------------------------
(* Properties of chat requests racing with end-session (specification SpecChatEndRace) *)

\* C35: no message is appended to a session after its status became
\* completed (its ended_at is set from then on), also when an end-session
\* request runs between the status check and the inserts of a chat-send
\* request; the transcript of a completed session never changes.
C35_NoMessageAfterCompleted ==
    [][\A n \in SessionNumbers :
        sessions[n].ended_at # NoTime => messages'[n] = messages[n]]_vars

\* a session that was completed stays completed
C35_CompletedStays ==
    [][\A n \in SessionNumbers :
        sessions[n].status = "completed" => sessions'[n].status = "completed"]_vars

\* the part of C35 that holds: a chat request that reads the session row
\* after it was completed is refused and appends nothing
C35_ChatReadAfterCompletedRefused ==
    [][\A r \in Requests, n \in SessionNumbers :
        (/\ inflight[r].pc = "idle"
         /\ inflight'[r].pc # "idle"
         /\ inflight'[r].n = n
         /\ sessions[n].status = "completed")
        => /\ inflight'[r] = Done(n, 400)
           /\ messages' = messages]_vars

----------------------------------------------------------------------------
(* Properties of the curriculum (specification SpecCurriculumFair) *)

AllCompleted == Completed(sessions) = SessionNumbers

\* C36: the curriculum cannot get stuck: when requests run one at a time
\* without crashes, the student keeps sending a chat turn to and then
\* ending the active session, generator calls eventually succeed and the
\* week keeps advancing, all 16 sessions are eventually completed; and
\* whenever fewer than 16 sessions are completed some session is available
\* or in_progress.
C36_CurriculumCompletes ==
    /\ [](Cardinality(Completed(sessions)) < NumSessions => Active(sessions) # {})
    /\ <>AllCompleted

\* all 16 sessions are completed, the last one in the eighth week
C36_Witness ==
    /\ AllCompleted
    /\ last.op = "end_session"
    /\ last.session = NumSessions
    /\ now >= iso_week_start(InitialNow) + 7 * SecondsPerWeek

====
